---- MODULE Spec2Model ----
(***************************************************************************)
(* Model of src/app.py: a Streamlit script that is re-executed from the    *)
(* top on every interaction.  A rerun loads the cached CSV, normalises the *)
(* column names and, on the "Exploratory Data Analysis" page, derives      *)
(* age_group with pd.cut, reads four multiselect widgets, filters the      *)
(* dataframe and builds the count figures and the churn-rate tables.       *)
(*                                                                         *)
(* A dataframe is [columns |-> <<names>>, data |-> <<rows>>], a row being  *)
(* a tuple of values aligned with columns.  Percentages are kept in tenths *)
(* of a percent (167 stands for 16.7), a fraction as [num, den].           *)
(***************************************************************************)
EXTENDS Integers, Sequences, FiniteSets, TLC

VARIABLES csv, cache, df, pages,
          selected_age, selected_edu, selected_gender, selected_income,
          filtered_df, churn_counts,
          fig_age, fig_edu, fig_income, fig_gender,
          age_rate, edu_rate, income_rate, gender_rate,
          snap

vars == <<csv, cache, df, pages,
          selected_age, selected_edu, selected_gender, selected_income,
          filtered_df, churn_counts,
          fig_age, fig_edu, fig_income, fig_gender,
          age_rate, edu_rate, income_rate, gender_rate,
          snap>>

-----------------------------------------------------------------------------
(* Bounds of the model *)

MaxRecords == 2
MaxSnapRecords == 2
MaxCount == 9
AgeMargin == 30

-----------------------------------------------------------------------------
(* Constants of the program *)

bins == <<20, 40, 50, 60, 79>>

labels == <<"20-39", "40-49", "50-59", "60-79">>

PageOptions == <<"Project Overview", "Exploratory Data Analysis",
                 "Churn Prediction Model", "Model Evaluation",
                 "Insight & Recommendation">>

EDA == "Exploratory Data Analysis"

\* header of data/bank_churn_data.csv, restricted to the columns the script reads
CsvHeader == <<"Attrition_Flag", "Customer_Age", "Gender", "Education_Level", "Income_Category">>

NaN == "NaN"

\* A rerun on another page binds no widget, frame or table; the model keeps
\* empty values for them and pages tells whether the names are bound
NoSelection == {}

NoFrame == [ columns |-> << >>, data |-> << >> ]

NoTable == [ k \in {} |-> 0 ]

NoSnap == [ filters |-> << >>, rendered |-> << >>, stale |-> FALSE ]

Outcomes == {"Existing Customer", "Attrited Customer"}

\* rows the bounded data sets are built from: <<flag, age, gender, education, income>>
Customers ==
    { <<"Existing Customer", 25, "M", "Graduate", "Less than $40K">>,
      <<"Attrited Customer", 45, "M", "Graduate", "Less than $40K">>,
      <<"Existing Customer", 15, "M", "Graduate", "Less than $40K">>,
      <<"Attrited Customer", 25, "F", "Unknown",  "$120K +">>,
      <<"Existing Customer", 45, "F", "Graduate", "$120K +">>,
      <<"Attrited Customer", 79, "F", "Unknown",  "Less than $40K">> }

\* the customers of one gender, education level and income category
SnapCustomers == { c \in Customers : c[3] = "M" }

-----------------------------------------------------------------------------
(* Dataframe helpers *)

Range(s) == { s[i] : i \in 1..Len(s) }

ColIdx(columns, name) == CHOOSE i \in 1..Len(columns) : columns[i] = name

\* df[name]: the column as a sequence of values
Col(frame, name) ==
    LET j == ColIdx(frame.columns, name)
    IN  [ i \in 1..Len(frame.data) |-> frame.data[i][j] ]

\* df[name] = values: replaces the column or appends a new one
SetCol(frame, name, values) ==
    IF name \in Range(frame.columns)
    THEN LET j == ColIdx(frame.columns, name)
         IN  [ frame EXCEPT !.data =
                 [ i \in 1..Len(frame.data) |-> [ frame.data[i] EXCEPT ![j] = values[i] ] ] ]
    ELSE [ columns |-> Append(frame.columns, name),
           data    |-> [ i \in 1..Len(frame.data) |-> Append(frame.data[i], values[i]) ] ]

\* df[mask]: the rows whose mask entry is TRUE, in order
RECURSIVE MaskRows(_, _, _)
MaskRows(data, mask, i) ==
    IF i > Len(data) THEN << >>
    ELSE IF mask[i] THEN << data[i] >> \o MaskRows(data, mask, i + 1)
         ELSE MaskRows(data, mask, i + 1)

\* Series.unique()
unique(series) == Range(series)

\* Series.dropna()
RECURSIVE dropna(_)
dropna(series) ==
    IF series = << >> THEN << >>
    ELSE IF Head(series) = NaN THEN dropna(Tail(series))
         ELSE << Head(series) >> \o dropna(Tail(series))

\* Series.isin(values)
isin(series, values) == [ i \in 1..Len(series) |-> series[i] \in values ]

-----------------------------------------------------------------------------
(* Loading and column normalisation *)

\* pd.read_csv: header and rows of the file
read_csv(file) == [ columns |-> CsvHeader, data |-> file ]

\* st.cache_resource in place of st.cache_data: the cached object itself
load_data_shared(cached) == [ frame |-> cached, aliased |-> TRUE ]

\* @st.cache_data: every call returns a fresh copy of the cached value, so
\* what the script does to the returned frame never reaches the cache
load_data(cached) == [ frame |-> cached, aliased |-> FALSE ]

\* str.lower().str.replace(' ', '_') on one column name
lower_replace(name) ==
    CASE name = "Attrition_Flag"  -> "attrition_flag"
      [] name = "Customer_Age"    -> "customer_age"
      [] name = "Gender"          -> "gender"
      [] name = "Education_Level" -> "education_level"
      [] name = "Income_Category" -> "income_category"
      [] OTHER                    -> name

normalize_columns(frame) ==
    [ frame EXCEPT !.columns = [ i \in 1..Len(frame.columns) |-> lower_replace(frame.columns[i]) ] ]

-----------------------------------------------------------------------------
(* Age grouping: pd.cut(df['customer_age'], bins, labels, right=False) *)

\* bins.searchsorted(x, side='right'): number of bin edges <= x
searchsorted_right(x) == Cardinality({ i \in 1..Len(bins) : bins[i] <= x })

cut(x) ==
    LET ids == searchsorted_right(x)
    IN  IF ids = 0 \/ ids = Len(bins) THEN NaN ELSE labels[ids]

age_group(frame) ==
    LET ages == Col(frame, "customer_age")
    IN  SetCol(frame, "age_group", [ i \in 1..Len(ages) |-> cut(ages[i]) ])

-----------------------------------------------------------------------------
(* Filtering: df[gender.isin & income.isin & age_group.isin & education.isin] *)

\* the education condition left out of the mask
filter_df_no_edu(frame, sel_age, sel_edu, sel_gender, sel_income) ==
    LET g == isin(Col(frame, "gender"), sel_gender)
        n == isin(Col(frame, "income_category"), sel_income)
        a == isin(Col(frame, "age_group"), sel_age)
        mask == [ i \in 1..Len(frame.data) |-> g[i] /\ n[i] /\ a[i] ]
    IN  [ columns |-> frame.columns, data |-> MaskRows(frame.data, mask, 1) ]

\* rows without an age group let through by the age condition
filter_df_keep_na(frame, sel_age, sel_edu, sel_gender, sel_income) ==
    LET g == isin(Col(frame, "gender"), sel_gender)
        n == isin(Col(frame, "income_category"), sel_income)
        a == isin(Col(frame, "age_group"), sel_age \cup {NaN})
        e == isin(Col(frame, "education_level"), sel_edu)
        mask == [ i \in 1..Len(frame.data) |-> g[i] /\ n[i] /\ a[i] /\ e[i] ]
    IN  [ columns |-> frame.columns, data |-> MaskRows(frame.data, mask, 1) ]

\* the gender condition joined with | instead of &
filter_df_or(frame, sel_age, sel_edu, sel_gender, sel_income) ==
    LET g == isin(Col(frame, "gender"), sel_gender)
        n == isin(Col(frame, "income_category"), sel_income)
        a == isin(Col(frame, "age_group"), sel_age)
        e == isin(Col(frame, "education_level"), sel_edu)
        mask == [ i \in 1..Len(frame.data) |-> g[i] \/ (n[i] /\ a[i] /\ e[i]) ]
    IN  [ columns |-> frame.columns, data |-> MaskRows(frame.data, mask, 1) ]

filter_df(frame, sel_age, sel_edu, sel_gender, sel_income) ==
    LET g == isin(Col(frame, "gender"), sel_gender)
        n == isin(Col(frame, "income_category"), sel_income)
        a == isin(Col(frame, "age_group"), sel_age)
        e == isin(Col(frame, "education_level"), sel_edu)
        mask == [ i \in 1..Len(frame.data) |-> g[i] /\ n[i] /\ a[i] /\ e[i] ]
    IN  [ columns |-> frame.columns, data |-> MaskRows(frame.data, mask, 1) ]

-----------------------------------------------------------------------------
(* Count tables *)

\* Series.value_counts(): one entry per value that occurs
value_counts(series) ==
    [ v \in unique(series) |-> Cardinality({ i \in 1..Len(series) : series[i] = v }) ]

\* bars counting distinct rows instead of rows
histogram_distinct(frame, category) ==
    LET c == Col(frame, category)
        f == Col(frame, "attrition_flag")
        bars == { <<c[i], f[i]>> : i \in { j \in 1..Len(c) : c[j] # NaN } }
    IN  [ b \in bars |->
            Cardinality({ frame.data[i] : i \in { j \in 1..Len(c) : <<c[j], f[j]>> = b } }) ]

\* px.histogram(frame, y=category, color='attrition_flag', barmode='group'):
\* one trace per flag holding that flag's rows; a bar per category that
\* occurs in the trace, its height the number of those rows
histogram(frame, category) ==
    LET c == Col(frame, category)
        f == Col(frame, "attrition_flag")
        bars == { <<c[i], f[i]>> : i \in { j \in 1..Len(c) : c[j] # NaN } }
    IN  [ b \in bars |-> Cardinality({ i \in 1..Len(c) : <<c[i], f[i]>> = b }) ]

-----------------------------------------------------------------------------
(* Rate tables: churn_rate_df *)

\* crosstab with dropna=False: a row for every category of the categorical
\* age_group column, observed or not
crosstab_dropna_false(frame, category) ==
    LET c == Col(frame, category)
        f == Col(frame, "attrition_flag")
        obs == { i \in 1..Len(c) : c[i] # NaN }
        index == IF category = "age_group" THEN Range(labels) ELSE { c[i] : i \in obs }
        columns == { f[i] : i \in obs }
    IN  [ k \in index \X columns |->
            Cardinality({ i \in obs : c[i] = k[1] /\ f[i] = k[2] }) ]

\* pd.crosstab(frame[category], frame['attrition_flag']): rows are the
\* category values that occur (dropna=True drops unobserved categories and
\* NaN keys), columns the flags that occur, cells the counts, 0 where a
\* combination does not occur
crosstab(frame, category) ==
    LET c == Col(frame, category)
        f == Col(frame, "attrition_flag")
        obs == { i \in 1..Len(c) : c[i] # NaN }
        index == { c[i] : i \in obs }
        columns == { f[i] : i \in obs }
    IN  [ k \in index \X columns |->
            Cardinality({ i \in obs : c[i] = k[1] /\ f[i] = k[2] }) ]

\* normalize='all': every cell divided by the sum of the whole table
normalize_all(ct) ==
    LET total == LET RECURSIVE sum(_)
                     sum(S) == IF S = {} THEN 0
                               ELSE LET j == CHOOSE x \in S : TRUE
                                    IN  ct[j] + sum(S \ {j})
                 IN  sum(DOMAIN ct)
    IN  [ k \in DOMAIN ct |->
            IF total = 0 THEN [ num |-> 0, den |-> 1 ]
            ELSE [ num |-> ct[k], den |-> total ] ]

\* normalize='columns': every cell divided by the sum of its column
normalize_by_column(ct) ==
    [ k \in DOMAIN ct |->
        LET values == { j[1] : j \in DOMAIN ct }
            RECURSIVE colsum(_)
            colsum(S) == IF S = {} THEN 0
                         ELSE LET v == CHOOSE x \in S : TRUE
                              IN  ct[<<v, k[2]>>] + colsum(S \ {v})
            total == colsum(values)
        IN  IF total = 0 THEN [ num |-> 0, den |-> 1 ]
            ELSE [ num |-> ct[k], den |-> total ] ]

\* normalize='index': every cell divided by the sum of its row; 0/0 is NaN
\* and fillna(0) makes it 0
normalize_index(ct) ==
    [ k \in DOMAIN ct |->
        LET flags == { j[2] : j \in DOMAIN ct }
            RECURSIVE rowsum(_)
            rowsum(S) == IF S = {} THEN 0
                         ELSE LET o == CHOOSE x \in S : TRUE
                              IN  ct[<<k[1], o>>] + rowsum(S \ {o})
            total == rowsum(flags)
        IN  IF total = 0 THEN [ num |-> 0, den |-> 1 ]
            ELSE [ num |-> ct[k], den |-> total ] ]

\* np.rint of num/den: nearest integer, halves to the even neighbour
rint(num, den) ==
    LET q == num \div den
        r2 == 2 * (num % den)
    IN  IF r2 < den THEN q
        ELSE IF r2 > den THEN q + 1
        ELSE IF q % 2 = 0 THEN q ELSE q + 1

\* Series.round(1) of a fraction, in tenths
round1(x) == rint(10 * x.num, x.den)

\* str(percentage) + '%', as <<integer part, first decimal>>
percentage_label(p) == << p \div 10, p % 10 >>

\* the melted table without the rows of the cells that are 0
churn_rate_df_nonzero(frame, category) ==
    LET ct == normalize_index(crosstab(frame, category))
    IN  [ k \in { j \in DOMAIN ct : ct[j].num > 0 } |->
            LET p == round1([ num |-> 100 * ct[k].num, den |-> ct[k].den ])
            IN  [ percentage |-> p, percentage_label |-> percentage_label(p) ] ]

\* crosstab * 100, reset_index().melt(): one row per (category, flag) cell,
\* then percentage rounded to one decimal and its label
churn_rate_df(frame, category) ==
    LET ct == normalize_index(crosstab(frame, category))
    IN  [ k \in DOMAIN ct |->
            LET p == round1([ num |-> 100 * ct[k].num, den |-> ct[k].den ])
            IN  [ percentage |-> p, percentage_label |-> percentage_label(p) ] ]

-----------------------------------------------------------------------------
(* One execution of the script *)

\* st.sidebar.multiselect(label, options, default=options): the selection
\* kept in the session while the widget stays on the page; a widget that
\* the previous run did not render starts again from the default
multiselect(state, options) == IF pages = EDA THEN state ELSE options

Script(p, w_age, w_edu, w_gender, w_income) ==
    LET loaded == load_data(cache)
        d0 == normalize_columns(loaded.frame)
    IN  /\ pages' = p
        /\ csv' = csv
        /\ snap' = IF snap = NoSnap THEN snap ELSE [ snap EXCEPT !.stale = TRUE ]
        /\ IF p = EDA
           THEN LET d1 == age_group(d0)
                    sa == multiselect(w_age, unique(dropna(Col(d1, "age_group"))))
                    se == multiselect(w_edu, unique(Col(d1, "education_level")))
                    sg == multiselect(w_gender, unique(Col(d1, "gender")))
                    si == multiselect(w_income, unique(Col(d1, "income_category")))
                    f  == filter_df(d1, sa, se, sg, si)
                IN  /\ df' = d1
                    /\ cache' = IF loaded.aliased THEN d1 ELSE cache
                    /\ selected_age' = sa
                    /\ selected_edu' = se
                    /\ selected_gender' = sg
                    /\ selected_income' = si
                    /\ filtered_df' = f
                    /\ churn_counts' = value_counts(Col(f, "attrition_flag"))
                    /\ fig_age' = histogram(f, "age_group")
                    /\ fig_edu' = histogram(f, "education_level")
                    /\ fig_income' = histogram(f, "income_category")
                    /\ fig_gender' = histogram(f, "gender")
                    /\ age_rate' = churn_rate_df(f, "age_group")
                    /\ edu_rate' = churn_rate_df(f, "education_level")
                    /\ income_rate' = churn_rate_df(f, "income_category")
                    /\ gender_rate' = churn_rate_df(f, "gender")
           ELSE /\ df' = d0
                /\ cache' = IF loaded.aliased THEN d0 ELSE cache
                /\ selected_age' = NoSelection
                /\ selected_edu' = NoSelection
                /\ selected_gender' = NoSelection
                /\ selected_income' = NoSelection
                /\ filtered_df' = NoFrame
                /\ churn_counts' = NoTable
                /\ fig_age' = NoTable
                /\ fig_edu' = NoTable
                /\ fig_income' = NoTable
                /\ fig_gender' = NoTable
                /\ age_rate' = NoTable
                /\ edu_rate' = NoTable
                /\ income_rate' = NoTable
                /\ gender_rate' = NoTable

-----------------------------------------------------------------------------
(* Interactions, each of which reruns the script *)

\* the sidebar radio: another page is chosen
SelectPage ==
    \E i \in 1..Len(PageOptions) :
        /\ PageOptions[i] # pages
        /\ Script(PageOptions[i], selected_age, selected_edu, selected_gender, selected_income)

SelectAge ==
    /\ pages = EDA
    /\ \E s \in SUBSET unique(dropna(Col(df, "age_group"))) :
        /\ s # selected_age
        /\ Script(EDA, s, selected_edu, selected_gender, selected_income)

SelectEdu ==
    /\ pages = EDA
    /\ \E s \in SUBSET unique(Col(df, "education_level")) :
        /\ s # selected_edu
        /\ Script(EDA, selected_age, s, selected_gender, selected_income)

SelectGender ==
    /\ pages = EDA
    /\ \E s \in SUBSET unique(Col(df, "gender")) :
        /\ s # selected_gender
        /\ Script(EDA, selected_age, selected_edu, s, selected_income)

SelectIncome ==
    /\ pages = EDA
    /\ \E s \in SUBSET unique(Col(df, "income_category")) :
        /\ s # selected_income
        /\ Script(EDA, selected_age, selected_edu, selected_gender, s)

\* what the page shows for the current selections
FilterSet == << selected_age, selected_edu, selected_gender, selected_income >>

Rendered == << filtered_df, churn_counts, fig_age, fig_edu, fig_income, fig_gender,
               age_rate, edu_rate, income_rate, gender_rate >>

\* st.plotly_chart: the page as rendered by some rerun is remembered
Observe ==
    /\ pages = EDA
    /\ snap # [ filters |-> FilterSet, rendered |-> Rendered, stale |-> FALSE ]
    /\ snap' = [ filters |-> FilterSet, rendered |-> Rendered, stale |-> FALSE ]
    /\ UNCHANGED << csv, cache, df, pages,
                    selected_age, selected_edu, selected_gender, selected_income,
                    filtered_df, churn_counts,
                    fig_age, fig_edu, fig_income, fig_gender,
                    age_rate, edu_rate, income_rate, gender_rate >>

Next == SelectPage \/ SelectAge \/ SelectEdu \/ SelectGender \/ SelectIncome

NextObserved == Next \/ Observe

-----------------------------------------------------------------------------
(* Initial states: the first run of the script, on the first radio option *)

SeqsUpTo(S, n) == UNION { [ 1..k -> S ] : k \in 0..n }

FirstRun ==
    /\ cache = read_csv(csv)
    /\ df = normalize_columns(load_data(cache).frame)
    /\ pages = PageOptions[1]
    /\ selected_age = NoSelection
    /\ selected_edu = NoSelection
    /\ selected_gender = NoSelection
    /\ selected_income = NoSelection
    /\ filtered_df = NoFrame
    /\ churn_counts = NoTable
    /\ fig_age = NoTable
    /\ fig_edu = NoTable
    /\ fig_income = NoTable
    /\ fig_gender = NoTable
    /\ age_rate = NoTable
    /\ edu_rate = NoTable
    /\ income_rate = NoTable
    /\ gender_rate = NoTable
    /\ snap = NoSnap

\* any file of at most MaxRecords customers
Init ==
    /\ csv \in SeqsUpTo(Customers, MaxRecords)
    /\ FirstRun

Spec == Init /\ [][Next]_vars

\* reruns whose rendered page is remembered
InitObserved ==
    /\ csv \in SeqsUpTo(SnapCustomers, MaxSnapRecords)
    /\ FirstRun

SpecObserved == InitObserved /\ [][NextObserved]_vars

\* a file of one customer of any age around the bins
TestAges == (bins[1] - AgeMargin)..(bins[Len(bins)] + AgeMargin)

InitAge ==
    /\ \E a \in TestAges : csv = << <<"Existing Customer", a, "M", "Graduate", "$120K +">> >>
    /\ FirstRun

SpecAge == InitAge /\ [][Next]_vars

\* a file of k existing and m attrited customers of one gender, followed or
\* not by a customer of the other gender
Copies(row, k) == [ i \in 1..k |-> row ]

InitRate ==
    /\ \E k, m \in 0..MaxCount, j \in 0..1 :
         csv = Copies(<<"Existing Customer", 45, "F", "Graduate", "$120K +">>, k)
               \o Copies(<<"Attrited Customer", 45, "F", "Graduate", "$120K +">>, m)
               \o Copies(<<"Existing Customer", 45, "M", "Graduate", "$120K +">>, j)
    /\ FirstRun

SpecRate == InitRate /\ [][Next]_vars

-----------------------------------------------------------------------------
(* Vocabulary of the properties *)

Dimensions == { "age_group", "education_level", "income_category", "gender" }

FigOf(d) ==
    CASE d = "age_group" -> fig_age
      [] d = "education_level" -> fig_edu
      [] d = "income_category" -> fig_income
      [] d = "gender" -> fig_gender

RateOf(d) ==
    CASE d = "age_group" -> age_rate
      [] d = "education_level" -> edu_rate
      [] d = "income_category" -> income_rate
      [] d = "gender" -> gender_rate

SelectedOf(d) ==
    CASE d = "age_group" -> selected_age
      [] d = "education_level" -> selected_edu
      [] d = "income_category" -> selected_income
      [] d = "gender" -> selected_gender

\* the values a multiselect offers for a dimension
OfferedOf(d) ==
    IF d = "age_group" THEN unique(Col(df, d)) \ {NaN} ELSE unique(Col(df, d))

\* every offered value of every dimension is selected
AllInclusive == \A d \in Dimensions : SelectedOf(d) = OfferedOf(d)

\* indices of the rows of df that belong to every selection
Passing ==
    { i \in 1..Len(df.data) : \A d \in Dimensions : Col(df, d)[i] \in SelectedOf(d) }

\* the k-th smallest element of a set of indices
Kth(S, k) == CHOOSE i \in S : Cardinality({ j \in S : j <= i }) = k

\* number of filtered rows with value v in dimension d
Members(d, v) ==
    Cardinality({ i \in 1..Len(filtered_df.data) : Col(filtered_df, d)[i] = v })

\* number of filtered rows with value v in dimension d and outcome o
MembersWith(d, v, o) ==
    Cardinality({ i \in 1..Len(filtered_df.data) :
                    /\ Col(filtered_df, d)[i] = v
                    /\ Col(filtered_df, "attrition_flag")[i] = o })

RECURSIVE SumOver(_, _)
SumOver(f, S) ==
    IF S = {} THEN 0
    ELSE LET k == CHOOSE x \in S : TRUE IN f[k] + SumOver(f, S \ {k})

Total(table) == SumOver(table, DOMAIN table)

Abs(x) == IF x < 0 THEN -x ELSE x

-----------------------------------------------------------------------------
(* C1 *)

\* the bucket the labels name for an age
Bucket(a) ==
    CASE a \in 20..39 -> "20-39"
      [] a \in 40..49 -> "40-49"
      [] a \in 50..59 -> "50-59"
      [] a \in 60..79 -> "60-79"
      [] OTHER -> NaN

\* C1: the age group of every row is missing iff its age is below 20 or
\* above 79, and every age of 20..79, 79 included, gets the one bucket whose
\* label names it.
C1_AgeGroupPartition ==
    pages = EDA =>
        \A i \in 1..Len(df.data) :
            LET a == Col(df, "customer_age")[i]
                g == Col(df, "age_group")[i]
            IN  /\ (g = NaN) <=> (a < 20 \/ a > 79)
                /\ g = Bucket(a)

-----------------------------------------------------------------------------
(* C2 *)

\* C2: the filtered frame holds exactly the rows of df that belong to all
\* four selections, in the order of df, each as often as it occurs in df.
C2_FilterExact ==
    pages = EDA =>
        /\ filtered_df.columns = df.columns
        /\ Len(filtered_df.data) = Cardinality(Passing)
        /\ \A k \in 1..Len(filtered_df.data) : filtered_df.data[k] = df.data[Kth(Passing, k)]

\* two rows, the first filtered out and the second kept
C2_Witness ==
    /\ pages = EDA
    /\ Len(df.data) = 2
    /\ Passing = {2}
    /\ filtered_df.data = << df.data[2] >>

-----------------------------------------------------------------------------
(* C3 *)

OutsideBuckets == { i \in 1..Len(df.data) : Col(df, "age_group")[i] = NaN }

\* C3 as stated: under the all-inclusive selection a row whose age is outside
\* the buckets is absent from the age-group tables but counted in the
\* gender, education, income and overall outcome counts.
C3_OutsideAgeStillCounted ==
    (pages = EDA /\ AllInclusive) =>
        /\ NaN \notin { k[1] : k \in DOMAIN fig_age \cup DOMAIN age_rate }
        /\ Total(fig_age) = Len(df.data) - Cardinality(OutsideBuckets)
        /\ Total(fig_gender) = Len(df.data)
        /\ Total(fig_edu) = Len(df.data)
        /\ Total(fig_income) = Len(df.data)
        /\ Total(churn_counts) = Len(df.data)

\* C3 amended: a row whose age group is missing is never in the filtered
\* frame, so under the all-inclusive selection every table, age-based or
\* not, counts exactly the rows whose age group is defined.
C3_OutsideAgeExcludedEverywhere ==
    pages = EDA =>
        /\ \A i \in 1..Len(filtered_df.data) : Col(filtered_df, "age_group")[i] # NaN
        /\ NaN \notin { k[1] : k \in DOMAIN fig_age \cup DOMAIN age_rate }
        /\ AllInclusive =>
             LET inside == Len(df.data) - Cardinality(OutsideBuckets)
             IN  /\ Total(fig_age) = inside
                 /\ Total(fig_gender) = inside
                 /\ Total(fig_edu) = inside
                 /\ Total(fig_income) = inside
                 /\ Total(churn_counts) = inside

\* all-inclusive selection over a file with a row outside and a row inside the buckets
C3_Witness ==
    /\ pages = EDA
    /\ AllInclusive
    /\ Len(df.data) = 2
    /\ Cardinality(OutsideBuckets) = 1
    /\ Total(fig_gender) = 1

-----------------------------------------------------------------------------
(* C4 *)

\* C4: every row (v, o) of a rate table reports 100 * count(v, o) / count(v)
\* to the nearest tenth, count(v) being the filtered rows of value v over all
\* outcomes, and every (v, o) that occurs in the filtered frame has its row.
C4_RatePerCategory ==
    pages = EDA =>
        \A d \in Dimensions :
            /\ \A k \in DOMAIN RateOf(d) :
                 /\ Members(d, k[1]) > 0
                 /\ 2 * Abs(RateOf(d)[k].percentage * Members(d, k[1])
                            - 1000 * MembersWith(d, k[1], k[2])) <= Members(d, k[1])
            /\ \A i \in 1..Len(filtered_df.data) :
                 << Col(filtered_df, d)[i], Col(filtered_df, "attrition_flag")[i] >> \in DOMAIN RateOf(d)

\* two genders in the filtered frame, one of them with 1 attrited of 3
C4_Witness ==
    /\ pages = EDA
    /\ Members("gender", "M") = 1
    /\ Members("gender", "F") = 3
    /\ << "F", "Attrited Customer" >> \in DOMAIN gender_rate
    /\ gender_rate[<< "F", "Attrited Customer" >>].percentage = 333

-----------------------------------------------------------------------------
(* C5 *)

\* C5: for every category value of every rate table the rounded percentages
\* of its outcomes add up to between 99.9 and 100.1.
C5_RateRowSum ==
    pages = EDA =>
        \A d \in Dimensions :
            \A v \in { k[1] : k \in DOMAIN RateOf(d) } :
                LET row == { k \in DOMAIN RateOf(d) : k[1] = v }
                    pct == [ k \in row |-> RateOf(d)[k].percentage ]
                IN  SumOver(pct, row) \in 999..1001

\* 7 existing of 16: both percentages are halves of a tenth (43.75, 56.25)
C5_Witness ==
    /\ pages = EDA
    /\ Members("education_level", "Graduate") = 16
    /\ MembersWith("education_level", "Graduate", "Existing Customer") = 7
    /\ edu_rate[<< "Graduate", "Existing Customer" >>].percentage = 438
    /\ edu_rate[<< "Graduate", "Attrited Customer" >>].percentage = 562

-----------------------------------------------------------------------------
(* C6 *)

\* C6: for every dimension whose filtered values are all defined the counts
\* of its count table add up to the number of filtered rows.
C6_CountsSumToFiltered ==
    pages = EDA =>
        \A d \in Dimensions :
            (\A i \in 1..Len(filtered_df.data) : Col(filtered_df, d)[i] # NaN)
                => Total(FigOf(d)) = Len(filtered_df.data)

\* the same customer twice in the filtered frame
C6_Witness ==
    /\ pages = EDA
    /\ Len(filtered_df.data) = 2
    /\ filtered_df.data[1] = filtered_df.data[2]
    /\ Total(fig_age) = 2

-----------------------------------------------------------------------------
(* C7 *)

\* C7: a category value, the four age buckets included, without a filtered
\* row has no entry in the count table and none in the rate table.
C7_SparseTables ==
    pages = EDA =>
        \A d \in Dimensions :
            \A v \in OfferedOf(d) \cup (IF d = "age_group" THEN Range(labels) ELSE {}) :
                Members(d, v) = 0 =>
                    v \notin { k[1] : k \in DOMAIN FigOf(d) \cup DOMAIN RateOf(d) }

\* an age bucket that occurs in the file and is deselected, beside one that is kept
C7_Witness ==
    /\ pages = EDA
    /\ OfferedOf("age_group") = { "20-39", "40-49" }
    /\ selected_age = { "40-49" }
    /\ Members("age_group", "40-49") = 1
    /\ { k[1] : k \in DOMAIN age_rate } = { "40-49" }

-----------------------------------------------------------------------------
(* C8 *)

\* C8: no rerun changes the cached data set, and a rerun whose selections
\* equal those of a remembered earlier rerun renders the same filtered frame
\* and the same count and rate tables.
C8_NoDrift ==
    /\ cache = read_csv(csv)
    /\ (pages = EDA /\ snap.filters = FilterSet) => snap.rendered = Rendered

\* the selections of a remembered rerun are back after other reruns
C8_Witness ==
    /\ pages = EDA
    /\ snap.stale
    /\ snap.filters = FilterSet
    /\ Len(filtered_df.data) = 1
    /\ Len(df.data) = 2

-----------------------------------------------------------------------------
(* C9 *)

\* C9 as stated: the rows of a category value in a rate table are exactly
\* the outcomes observed for it; there is no row for an outcome it lacks.
C9_OnlyObservedOutcomes ==
    pages = EDA =>
        \A d \in Dimensions :
            \A k \in DOMAIN RateOf(d) : MembersWith(d, k[1], k[2]) > 0

\* C9 amended: the rows of a category value are the outcomes observed
\* anywhere in the filtered frame; an outcome the value lacks gets a row at
\* 0.0, and the only observed outcome of a value gets 100.0.
C9_RowsForAllObservedOutcomes ==
    pages = EDA =>
        \A d \in Dimensions :
            /\ DOMAIN RateOf(d) =
                 { Col(filtered_df, d)[i] : i \in 1..Len(filtered_df.data) }
                 \X { Col(filtered_df, "attrition_flag")[i] : i \in 1..Len(filtered_df.data) }
            /\ \A k \in DOMAIN RateOf(d) :
                 /\ MembersWith(d, k[1], k[2]) = 0 => RateOf(d)[k].percentage = 0
                 /\ MembersWith(d, k[1], k[2]) = Members(d, k[1]) => RateOf(d)[k].percentage = 1000

\* a bucket with existing customers only beside a bucket with an attrited one
C9_Witness ==
    /\ pages = EDA
    /\ DOMAIN age_rate = { "20-39", "40-49" } \X Outcomes
    /\ age_rate[<< "20-39", "Attrited Customer" >>].percentage = 0
    /\ age_rate[<< "20-39", "Existing Customer" >>].percentage = 1000

-----------------------------------------------------------------------------
(* C10 *)

\* C10: with an empty selection in some dimension, or an empty file, the
\* filtered frame has no rows and every count and rate table is empty.
C10_EmptySelectionEmptyTables ==
    (pages = EDA /\ (df.data = << >> \/ \E d \in Dimensions : SelectedOf(d) = {})) =>
        /\ filtered_df.data = << >>
        /\ DOMAIN churn_counts = {}
        /\ \A d \in Dimensions : DOMAIN FigOf(d) = {} /\ DOMAIN RateOf(d) = {}

\* only the gender selection is empty, over a file whose rows would pass otherwise
C10_Witness ==
    /\ pages = EDA
    /\ Len(df.data) = 2
    /\ OutsideBuckets = {}
    /\ selected_gender = {}
    /\ \A d \in Dimensions \ {"gender"} : SelectedOf(d) = OfferedOf(d)
    /\ filtered_df.data = << >>

====
